---- MODULE Spec2Model ----
(***************************************************************************)
(* Model of the layout and timeline composition code of the Kombucha       *)
(* content generator: VideoProcessor.create_reel / create_combined_reel    *)
(* (src/src/video_processor.py), the asset rotation selectors, the ledger  *)
(* of used assets and generate_reel of ContentGenerator                    *)
(* (src/src/content_generator.py), the text wrapping and drawing of        *)
(* ImageProcessor.create_text_overlay (src/src/image_processor.py) and the *)
(* batch_generate command (src/main.py).                                   *)
(*                                                                         *)
(* Times are exact rationals <<numerator, denominator>> (denominator > 0,  *)
(* lowest terms), so that the divisions of the code (remaining / count,    *)
(* words / 2.5, 0.1 * duration) are computed and not rounded.              *)
(***************************************************************************)
EXTENDS Integers, Sequences, FiniteSets, TLC

VARIABLES
    min_duration,   \* VideoProcessor.min_duration (config reel_duration.min)
    max_duration,   \* VideoProcessor.max_duration (config reel_duration.max)
    moviepy,        \* major version of the installed moviepy (1 or 2)
    call,           \* the call under way: method name and arguments
    pc,             \* "idle" before the call runs, "done" after it returned or raised
    raised,         \* the exception that left the method, "none" if it returned
    clips,          \* the prepared segments: <<[start, allocated, duration, placed], ...>>
    composed,       \* final_clip.duration after concatenation
    looped,         \* final_clip.duration after the minimum step
    bounded,        \* final_clip.duration after the minimum / maximum steps
    text_clips,     \* the overlay clips: <<[kind, start, duration], ...>>
    final_clip,     \* final_clip.duration as written to the file
    audio,          \* the attached audio: [copies, duration], or NoAudio
    pool,           \* the candidates a selector is given (a list)
    used,           \* the used set a selector is given
    chosen,         \* the candidate random.choice picked, NoItem if none
    selected,       \* the value the selector returned
    warned,         \* TRUE iff the selector printed the "all used" warning
    all_parts,      \* create_text_overlay: the chunks of the text
    wrapped_lines,  \* create_text_overlay: the lines kept after verification
    line_heights,   \* create_text_overlay: the measured height of each line
    total_height,   \* create_text_overlay: the height of the text block
    y_start,        \* create_text_overlay: the top of the text block
    drawn,          \* create_text_overlay: per line, what was drawn and where
    results,        \* batch_generate: [feeds, reels], the entries recorded so far
    batch_index,    \* batch_generate: the loop variable i of the running loop
    attempted,      \* batch_generate: the items whose generator was called
    metadata_files, \* output/: the *_metadata.json files of feed_posts and reels
    loaded_assets,  \* used_assets: the ledger _load_used_assets returned last
    output_dir,     \* output/: the files written, a function from path to content
    now,            \* the second datetime.now() is in
    runs            \* the generator runs that returned, in order: what each selected

videoVars == <<min_duration, max_duration, moviepy, clips, composed, looped, bounded,
               text_clips, final_clip, audio>>
selectVars == <<pool, used, chosen, selected, warned>>
textVars == <<all_parts, wrapped_lines, line_heights, total_height, y_start, drawn>>
batchVars == <<results, batch_index, attempted, metadata_files, loaded_assets>>
runVars == <<output_dir, now, runs>>

vars == <<call, pc, raised, videoVars, selectVars, textVars, batchVars, runVars>>

----------------------------------------------------------------------------
(* Bounds of the model *)

MaxVideos == 2
MaxImages == 1
MaxWords == 12
MaxOverlays == 1
NumItems == 3
MaxTextLen == 5

----------------------------------------------------------------------------
(* Exact rational arithmetic for Python's float expressions *)

Abs(n) == IF n < 0 THEN -n ELSE n

RECURSIVE GCD(_, _)
GCD(a, b) == IF b = 0 THEN a ELSE GCD(b, a % b)

Norm(n, d) == LET g == GCD(Abs(n), d) IN <<n \div g, d \div g>>

R(n) == <<n, 1>>
Frac(n, d) == Norm(n, d)
RAdd(a, b) == Norm(a[1] * b[2] + b[1] * a[2], a[2] * b[2])
RSub(a, b) == Norm(a[1] * b[2] - b[1] * a[2], a[2] * b[2])
RMul(a, b) == Norm(a[1] * b[1], a[2] * b[2])
RDiv(a, b) == IF b[1] > 0 THEN Norm(a[1] * b[2], a[2] * b[1])
                          ELSE Norm(-(a[1] * b[2]), a[2] * (-b[1]))
RLe(a, b) == a[1] * b[2] <= b[1] * a[2]
RLt(a, b) == a[1] * b[2] < b[1] * a[2]
RMin(a, b) == IF RLe(a, b) THEN a ELSE b
RMax(a, b) == IF RLe(b, a) THEN a ELSE b
\* Python int(x) for x >= 0
RInt(a) == a[1] \div a[2]

RECURSIVE RSum(_)
RSum(s) == IF s = <<>> THEN R(0) ELSE RAdd(Head(s), RSum(Tail(s)))

Zero == R(0)
NoAudio == [copies |-> 0, duration |-> R(0)]

----------------------------------------------------------------------------
(* moviepy: the clip operations the processor relies on *)

\* clip.subclipped(0, end) / clip.subclip(0, end): the first `end` seconds
subclipped(duration, end) == RMin(duration, end)

\* concatenate_videoclips(clips, method="compose"): the clips back to back
concatenate_videoclips(durations) == RSum(durations)

\* CompositeVideoClip([final_clip] + text_clips): lasts until the last layer ends
RECURSIVE CompositeVideoClip(_, _)
CompositeVideoClip(duration, layers) ==
    IF layers = <<>> THEN duration
    ELSE CompositeVideoClip(
            RMax(duration, RAdd(Head(layers).start, Head(layers).duration)),
            Tail(layers))

----------------------------------------------------------------------------
(* VideoProcessor.prepare_clip: the length of the prepared clip *)

prepare_clip(natural, duration) ==
    IF duration # Zero THEN RMin(duration, natural) ELSE natural

----------------------------------------------------------------------------
(* Overlay texts.  A text is the sequence of its word lengths, the words   *)
(* being separated by single spaces; <<>> is the empty string / None.      *)

WordLengths == {4, 9}
Texts == {<<>>} \cup {[i \in 1..n |-> l] : n \in {1, MaxWords}, l \in WordLengths}

RECURSIVE SumInts(_)
SumInts(s) == IF s = <<>> THEN 0 ELSE Head(s) + SumInts(Tail(s))

\* len(text)
TextChars(text) == IF text = <<>> THEN 0 ELSE SumInts(text) + Len(text) - 1

\* len(textwrap.wrap(text, width)): greedy filling, no word longer than width
RECURSIVE textwrap_lines(_, _, _, _)
textwrap_lines(words, width, cur, lines) ==
    IF words = <<>> THEN lines + (IF cur > 0 THEN 1 ELSE 0)
    ELSE IF cur = 0 THEN textwrap_lines(Tail(words), width, Head(words), lines)
    ELSE IF cur + 1 + Head(words) <= width
         THEN textwrap_lines(Tail(words), width, cur + 1 + Head(words), lines)
         ELSE textwrap_lines(Tail(words), width, Head(words), lines + 1)

\* VideoProcessor.calculate_text_duration
calculate_text_duration(text, min_d, max_d) ==
    LET words == Len(text)
        chars == TextChars(text)
        word_based_duration == Frac(2 * words, 5)
        char_based_duration == Frac(chars, 100)
        base == RMax(word_based_duration, char_based_duration)
        num_lines == textwrap_lines(text, 30, 0, 0)
        calculated_duration ==
            IF num_lines > 1 THEN RAdd(base, Frac(num_lines - 1, 2)) ELSE base
    IN  RMax(min_d, RMin(calculated_duration, max_d))

----------------------------------------------------------------------------
(* The steps shared by create_reel and create_combined_reel *)

\* a loop count that lacks the extra copy
loops_needed_NoExtraCopy(duration, min_d) == RInt(RDiv(min_d, duration))

\* "Ensure minimum duration": loop the clip and cut it at min_duration
loops_needed(duration, min_d) == RInt(RDiv(min_d, duration)) + 1

EnsureMinimum(duration, min_d) ==
    IF RLt(duration, min_d)
    THEN subclipped(RMul(R(loops_needed(duration, min_d)), duration), min_d)
    ELSE duration

\* "Ensure maximum duration": final_clip.subclip(0, max_duration); moviepy 2
\* clips have no subclip attribute
MaximumRaises(duration, max_d, version) == RLt(max_d, duration) /\ version = 2

\* a maximum step that leaves the clip as long as it is
EnsureMaximum_NoTrim(duration, max_d) == duration

EnsureMaximum(duration, max_d) ==
    IF RLt(max_d, duration) THEN subclipped(duration, max_d) ELSE duration

\* a loop count that lacks the extra copy
audio_loops_NoExtraCopy(track, duration) == RInt(RDiv(duration, track))

\* "Add background music": loop the track when it is shorter, then cut it
audio_loops(track, duration) == RInt(RDiv(duration, track)) + 1

AttachAudio(track, duration) ==
    IF track = Zero THEN NoAudio
    ELSE IF RLt(track, duration)
         THEN [copies |-> audio_loops(track, duration),
               duration |-> subclipped(RMul(R(audio_loops(track, duration)), track),
                                       duration)]
         ELSE [copies |-> 1, duration |-> subclipped(track, duration)]

Durations(cs) == [i \in 1..Len(cs) |-> cs[i].duration]

\* a concatenation that keeps the start each clip was given by with_start
concatenate_placements_KeepStart(cs) ==
    [k \in 1..Len(cs) |->
        [start |-> cs[k].start, allocated |-> cs[k].allocated,
         duration |-> cs[k].duration, placed |-> cs[k].start]]

\* concatenate_videoclips(clips, method="compose") puts each clip where the
\* clips before it end, whatever start it was given: `placed`
concatenate_placements(cs) ==
    [k \in 1..Len(cs) |->
        [start |-> cs[k].start, allocated |-> cs[k].allocated,
         duration |-> cs[k].duration,
         placed |-> RSum(SubSeq(Durations(cs), 1, k - 1))]]

----------------------------------------------------------------------------
(* ContentGenerator: the rotation selectors.                               *)
(* A candidate or a used entry is [id, form]: `id` is what it denotes (the *)
(* file, the words of the text), `form` how it is written.  "plain" is the *)
(* resolved absolute path / the single-spaced text; "variant" is another   *)
(* spelling of the same path (relative, through a link) / the same words   *)
(* with other whitespace.  A key point of more than 200 characters is     *)
(* returned truncated, which is another text: it has the id -id.           *)

Items == [id : 1..NumItems, form : {"plain", "variant"}]
NoItem == [id |-> 0, form |-> "none"]
FallbackQuote == [id |-> 0, form |-> "fallback"]

Range(s) == {s[i] : i \in 1..Len(s)}

\* str(Path(p).resolve())
resolve(p) == [p EXCEPT !.form = "plain"]

\* ' '.join(b.split())
normalize_whitespace(b) ==
    IF b.form = "variant" THEN [b EXCEPT !.form = "plain"] ELSE b

\* a filter that compares the paths as they are written
unused_assets_Unresolved(available_assets, used_assets) ==
    LET Unused(asset) == asset \notin used_assets
    IN  SelectSeq(available_assets, Unused)

\* _select_unused_asset: "Filter out used assets"
unused_assets(available_assets, used_assets) ==
    LET used_paths == {resolve(p) : p \in used_assets}
        Unused(asset) == resolve(asset) \notin used_paths
    IN  SelectSeq(available_assets, Unused)

\* _select_unused_quote: "Filter out used quotes"
unused_quotes(all_quotes, used_quotes) ==
    LET Unused(q) == q \notin used_quotes
    IN  SelectSeq(all_quotes, Unused)

\* a filter that compares the texts without normalising their whitespace
unused_benefits_Raw(all_key_points, used_benefits) ==
    LET Unused(benefit) == benefit \notin used_benefits
    IN  SelectSeq(all_key_points, Unused)

\* _select_unused_health_benefit: "Filter out used benefits"
unused_benefits(all_key_points, used_benefits) ==
    LET normalized_used == {normalize_whitespace(b) : b \in used_benefits}
        Unused(benefit) == normalize_whitespace(benefit) \notin normalized_used
    IN  SelectSeq(all_key_points, Unused)

\* the key points of more than 200 characters
LongKeyPoints == {NumItems}

\* _select_unused_health_benefit: "Truncate if too long", then strip()
truncate_benefit(benefit) ==
    IF benefit.id \in LongKeyPoints THEN [benefit EXCEPT !.id = -benefit.id]
    ELSE benefit

----------------------------------------------------------------------------
(* The variables of a component that is not taking part in a call *)

VideoIdle ==
    /\ min_duration = R(15)
    /\ max_duration = R(90)
    /\ moviepy = 1
    /\ clips = <<>>
    /\ composed = Zero
    /\ looped = Zero
    /\ bounded = Zero
    /\ text_clips = <<>>
    /\ final_clip = Zero
    /\ audio = NoAudio

SelectIdle ==
    /\ pool = <<>>
    /\ used = {}
    /\ chosen = NoItem
    /\ selected = NoItem
    /\ warned = FALSE

TextIdle ==
    /\ all_parts = <<>>
    /\ wrapped_lines = <<>>
    /\ line_heights = <<>>
    /\ total_height = 0
    /\ y_start = 0
    /\ drawn = <<>>

NoResults == [feeds |-> <<>>, reels |-> <<>>]
NoMetadata == [feed_posts |-> <<>>, reels |-> <<>>]
EmptyLedger == [images |-> {}, videos |-> {}, quotes |-> {},
                health_benefits |-> {}, music |-> {}]

BatchIdle ==
    /\ results = NoResults
    /\ batch_index = 0
    /\ attempted = {}
    /\ metadata_files = NoMetadata
    /\ loaded_assets = EmptyLedger

EmptyDirectory == <<>>

RunIdle ==
    /\ output_dir = EmptyDirectory
    /\ now = 0
    /\ runs = <<>>

----------------------------------------------------------------------------
(* The result of one call, before it is stored in the variables *)

Outcome(exc, cs, d0, d1, d2, texts, d3, au) ==
    [raised |-> exc, clips |-> cs, composed |-> d0, looped |-> d1, bounded |-> d2,
     text_clips |-> texts, final_clip |-> d3, audio |-> au]

Raise(exc, cs, d0) == Outcome(exc, cs, d0, Zero, Zero, <<>>, Zero, NoAudio)

\* an exception of the minimum or maximum step; the maximum step comes after
\* the clip was looped
RaiseInBounds(exc, cs, d0, min_d) ==
    Outcome(exc, cs, d0,
            IF exc = "AttributeError" THEN EnsureMinimum(d0, min_d) ELSE Zero,
            Zero, <<>>, Zero, NoAudio)

\* The exception of the minimum and maximum steps, "none" if they pass
BoundsRaise(d0, min_d, max_d, version) ==
    IF d0 = Zero /\ RLt(d0, min_d) THEN "ZeroDivisionError"
    ELSE IF MaximumRaises(EnsureMinimum(d0, min_d), max_d, version) THEN "AttributeError"
    ELSE "none"

\* final_clip.duration after the minimum and the maximum step
Bounded(d0, min_d, max_d) == EnsureMaximum(EnsureMinimum(d0, min_d), max_d)

\* From the bounded clip to the written file: overlays, then music
Complete(cs, d0, d1, d2, texts, music) ==
    LET d3 == IF texts # <<>> THEN CompositeVideoClip(d2, texts) ELSE d2
    IN  Outcome("none", cs, d0, d1, d2, texts, d3, AttachAudio(music, d3))

----------------------------------------------------------------------------
(* VideoProcessor.create_reel *)

PerClipCap == R(10)

\* a loop that gives every clip the 10 seconds of the cap, whatever is left
RECURSIVE AllocateClips_CapOnly(_, _, _, _, _)
AllocateClips_CapOnly(naturals, i, current_time, max_d, transition) ==
    IF i > Len(naturals) THEN <<>>
    ELSE LET remaining_time == RSub(max_d, current_time) IN
         IF RLe(remaining_time, Zero) THEN <<>>
         ELSE <<[start |-> current_time,
                 allocated |-> PerClipCap,
                 duration |-> prepare_clip(naturals[i], PerClipCap)]>>
              \o AllocateClips_CapOnly(naturals, i + 1,
                                       RAdd(current_time, RSub(PerClipCap, transition)),
                                       max_d, transition)

\* the loop over video_paths, from the i-th path on (i counts from 1)
RECURSIVE AllocateClips(_, _, _, _, _)
AllocateClips(naturals, i, current_time, max_d, transition) ==
    IF i > Len(naturals) THEN <<>>
    ELSE LET remaining_time == RSub(max_d, current_time) IN
         IF RLe(remaining_time, Zero) THEN <<>>
         ELSE LET clip_duration ==
                      RMin(RDiv(remaining_time, R(Len(naturals) - i + 1)), PerClipCap)
              IN  <<[start |-> current_time,
                     allocated |-> clip_duration,
                     duration |-> prepare_clip(naturals[i], clip_duration)]>>
                  \o AllocateClips(naturals, i + 1,
                                   RAdd(current_time, RSub(clip_duration, transition)),
                                   max_d, transition)

\* create_text_clip for each caller-supplied overlay dict
ReelOverlays(text_overlays) ==
    [i \in 1..Len(text_overlays) |->
        [kind |-> "overlay",
         start |-> text_overlays[i].start_time,
         duration |-> text_overlays[i].duration]]

create_reel(c, min_d, max_d, version) ==
    IF c.video_paths = <<>> THEN Raise("ValueError", <<>>, Zero)
    ELSE LET cs == concatenate_placements(
                       AllocateClips(c.video_paths, 1, Zero, max_d, c.transition_duration))
             d0 == concatenate_videoclips(Durations(cs))
             exc == BoundsRaise(d0, min_d, max_d, version)
         IN  IF cs = <<>> THEN Raise("IndexError", cs, Zero)
             ELSE IF exc # "none" THEN RaiseInBounds(exc, cs, d0, min_d)
             ELSE Complete(cs, d0, EnsureMinimum(d0, min_d), Bounded(d0, min_d, max_d),
                           ReelOverlays(c.text_overlays), c.music)

----------------------------------------------------------------------------
(* VideoProcessor.create_combined_reel *)

OverlayFloor == R(3)

\* the loops over video_paths and image_paths
RECURSIVE PlaceClips(_, _)
PlaceClips(durations, current_time) ==
    IF durations = <<>> THEN <<>>
    ELSE <<[start |-> current_time,
            allocated |-> Head(durations).allocated,
            duration |-> Head(durations).duration]>>
         \o PlaceClips(Tail(durations), RAdd(current_time, Head(durations).allocated))

CombinedSegments(c) ==
    [i \in 1..Len(c.video_paths) |->
        [allocated |-> c.video_duration,
         duration |-> prepare_clip(c.video_paths[i], c.video_duration)]]
    \o [i \in 1..c.image_paths |->
        [allocated |-> c.image_duration, duration |-> c.image_duration]]

\* a shrink step that fits the overlay without keeping the floor
ShrinkOverlay_NoFloor(start_time, duration, total) ==
    IF RLt(total, RAdd(start_time, duration))
    THEN RSub(RSub(total, start_time), Frac(1, 2))
    ELSE duration

\* "Ensure quote doesn't extend beyond video end"
ShrinkOverlay(start_time, duration, total) ==
    IF RLt(total, RAdd(start_time, duration))
    THEN RMax(OverlayFloor, RSub(RSub(total, start_time), Frac(1, 2)))
    ELSE duration

QuoteOverlay(text, total) ==
    LET ceiling == RMin(R(10), RMul(total, Frac(4, 10)))
        quote_duration == calculate_text_duration(text, OverlayFloor, ceiling)
        quote_start_time == RMul(total, Frac(1, 10))
    IN  [kind |-> "quote", start |-> quote_start_time,
         ceiling |-> ceiling, calculated |-> quote_duration,
         duration |-> ShrinkOverlay(quote_start_time, quote_duration, total)]

BenefitOverlay(text, total) ==
    LET ceiling == RMin(R(12), RMul(total, Frac(5, 10)))
        benefit_duration == calculate_text_duration(text, OverlayFloor, ceiling)
        benefit_start_time == RMul(total, Frac(5, 10))
    IN  [kind |-> "benefit", start |-> benefit_start_time,
         ceiling |-> ceiling, calculated |-> benefit_duration,
         duration |-> ShrinkOverlay(benefit_start_time, benefit_duration, total)]

CombinedOverlays(c, total) ==
    (IF c.quote_text # <<>> THEN <<QuoteOverlay(c.quote_text, total)>> ELSE <<>>)
    \o (IF c.health_benefit_text # <<>>
        THEN <<BenefitOverlay(c.health_benefit_text, total)>> ELSE <<>>)

create_combined_reel(c, min_d, max_d, version) ==
    LET cs == concatenate_placements(PlaceClips(CombinedSegments(c), Zero))
        d0 == concatenate_videoclips(Durations(cs))
        exc == BoundsRaise(d0, min_d, max_d, version)
        d2 == Bounded(d0, min_d, max_d)
    IN  IF cs = <<>> THEN Raise("IndexError", cs, Zero)
        ELSE IF exc # "none" THEN RaiseInBounds(exc, cs, d0, min_d)
        ELSE Complete(cs, d0, EnsureMinimum(d0, min_d), d2, CombinedOverlays(c, d2),
                      c.music)

----------------------------------------------------------------------------
(* ContentGenerator.generate_reel: the subtitle overlays and the call of   *)
(* create_reel.  selected_videos are the num_clips videos it selected,     *)
(* key_points the number of key points extract_key_points returned.        *)

DefaultTransition == Frac(1, 2)

\* "Create text overlays for video (subtitles)"
subtitle_overlays(num_clips, key_points) ==
    LET clip_duration == RMin(Frac(90, num_clips), R(10))
        shown == IF key_points < num_clips THEN key_points ELSE num_clips
    IN  [k \in 1..shown |->
            [start_time |-> RMul(R(k - 1), clip_duration),
             duration |-> RMin(RSub(clip_duration, R(1)), R(5))]]

generate_reel(c, min_d, max_d, version) ==
    create_reel([method |-> "create_reel",
                 video_paths |-> c.selected_videos,
                 text_overlays |-> subtitle_overlays(c.num_clips, c.key_points),
                 transition_duration |-> DefaultTransition,
                 music |-> c.music],
                min_d, max_d, version)

----------------------------------------------------------------------------
(* The calls of the model *)

DurationBounds == {R(2), R(5), R(15), R(20)}
NaturalDurations == {R(3), R(12)}
AudioTracks == {R(4), R(50)}
VideoDurations == {R(5)}
ImageDurations == {R(3)}
TransitionDurations == {R(0), Frac(1, 2)}
OverlayStarts == {R(0), R(10)}
OverlayDurations == {R(3), R(5)}

SeqsUpTo(S, n) == UNION {[1..k -> S] : k \in 0..n}

ReelCalls ==
    [method : {"create_reel"},
     video_paths : SeqsUpTo(NaturalDurations, MaxVideos),
     text_overlays : SeqsUpTo([start_time : OverlayStarts,
                               duration : OverlayDurations], MaxOverlays),
     transition_duration : TransitionDurations,
     music : {Zero} \cup AudioTracks]

CombinedCalls ==
    [method : {"create_combined_reel"},
     video_paths : SeqsUpTo(NaturalDurations, MaxVideos),
     image_paths : 0..MaxImages,
     quote_text : Texts,
     health_benefit_text : Texts,
     video_duration : VideoDurations,
     image_duration : ImageDurations,
     music : {Zero} \cup AudioTracks]

GenerateReelCalls ==
    UNION {[method : {"generate_reel"},
            num_clips : {n},
            selected_videos : [1..n -> NaturalDurations],
            key_points : 0..n,
            music : {Zero} \cup AudioTracks] : n \in 1..MaxVideos}

Return(o) ==
    /\ pc' = "done"
    /\ raised' = o.raised
    /\ clips' = o.clips
    /\ composed' = o.composed
    /\ looped' = o.looped
    /\ bounded' = o.bounded
    /\ text_clips' = o.text_clips
    /\ final_clip' = o.final_clip
    /\ audio' = o.audio
    /\ UNCHANGED <<min_duration, max_duration, moviepy, call, selectVars, textVars,
                   batchVars, runVars>>

InitVideo ==
    /\ min_duration \in DurationBounds
    /\ max_duration \in DurationBounds
    /\ moviepy \in {1, 2}
    /\ call \in ReelCalls \cup CombinedCalls \cup GenerateReelCalls
    /\ pc = "idle"
    /\ raised = "none"
    /\ clips = <<>>
    /\ composed = Zero
    /\ looped = Zero
    /\ bounded = Zero
    /\ text_clips = <<>>
    /\ final_clip = Zero
    /\ audio = NoAudio
    /\ SelectIdle
    /\ TextIdle
    /\ BatchIdle
    /\ RunIdle

CreateReel ==
    /\ pc = "idle"
    /\ call.method = "create_reel"
    /\ Return(create_reel(call, min_duration, max_duration, moviepy))

CreateCombinedReel ==
    /\ pc = "idle"
    /\ call.method = "create_combined_reel"
    /\ Return(create_combined_reel(call, min_duration, max_duration, moviepy))

GenerateReel ==
    /\ pc = "idle"
    /\ call.method = "generate_reel"
    /\ Return(generate_reel(call, min_duration, max_duration, moviepy))

NextVideo == CreateReel \/ CreateCombinedReel \/ GenerateReel

SpecVideo == InitVideo /\ [][NextVideo]_vars

----------------------------------------------------------------------------
(* Properties of the timeline composition *)

Returned == pc = "done" /\ raised = "none"
UsableBounds == RLt(Zero, min_duration) /\ RLe(min_duration, max_duration)
OverlayEnd(t) == RAdd(t.start, t.duration)

C2_OverlaysWithinTimeline ==
    (Returned /\ UsableBounds /\ call.method = "create_combined_reel") =>
        \A i \in 1..Len(text_clips) : RLe(OverlayEnd(text_clips[i]), bounded)

\* C6: composing with zero segments raises the usage error (ValueError) before
\* any clip is prepared, in create_reel and in create_combined_reel.
NoSegments ==
    /\ call.video_paths = <<>>
    /\ call.method = "create_combined_reel" => call.image_paths = 0

C6_EmptyInputRaisesValueError ==
    (pc = "done" /\ NoSegments) => (raised = "ValueError" /\ clips = <<>>)

\* C7: a returned timeline of create_combined_reel holds one overlay per given
\* text, and none whose floor duration (3.0) does not fit between its start and
\* the end of the timeline; such a composition fails instead.
GivenTexts ==
    (IF call.quote_text # <<>> THEN 1 ELSE 0)
    + (IF call.health_benefit_text # <<>> THEN 1 ELSE 0)

C7_OverlayTooLongIsRejected ==
    (Returned /\ call.method = "create_combined_reel") =>
        /\ Len(text_clips) = GivenTexts
        /\ \A i \in 1..Len(text_clips) :
              RLe(RAdd(text_clips[i].start, OverlayFloor), bounded)

\* C8: with min_duration > max_duration the composition is rejected with an
\* error and no timeline is produced.
C8_ImpossibleBoundsRejected ==
    (pc = "done" /\ RLt(max_duration, min_duration)) => raised # "none"

\* C10: the audio attached to a composed clip lasts exactly as long as the
\* clip: int(D/a)+1 copies cut at D when the track is shorter, else the track
\* cut at D.
C10_AudioMatchesDuration ==
    (Returned /\ call.music # Zero) =>
        /\ audio.duration = final_clip
        /\ audio.copies = IF RLt(call.music, final_clip)
                          THEN RInt(RDiv(final_clip, call.music)) + 1 ELSE 1

\* a short track looped several times under a composed clip
C10_Witness ==
    /\ Returned
    /\ call.music # Zero
    /\ audio.copies >= 3
    /\ audio.duration = final_clip

\* the allocation of the segments before the k-th
RECURSIVE AllocatedBefore(_)
AllocatedBefore(k) ==
    IF k <= 1 THEN Zero ELSE RAdd(AllocatedBefore(k - 1), clips[k - 1].allocated)

ReelComposed ==
    pc = "done" /\ call.method = "create_reel" /\ call.video_paths # <<>>

\* C13: create_reel allocates to each of its N segments
\* min(remainingBudget / remainingCount, 10), remainingBudget being
\* max_duration minus the durations allocated to the earlier segments, and so
\* never more than 10.
C13_AllocationFormula ==
    ReelComposed =>
        /\ Len(clips) = Len(call.video_paths)
        /\ \A k \in 1..Len(clips) :
              /\ clips[k].allocated =
                     RMin(RDiv(RSub(max_duration, AllocatedBefore(k)),
                               R(Len(call.video_paths) - k + 1)),
                          PerClipCap)
              /\ RLe(clips[k].allocated, PerClipCap)

\* C30: in create_reel with max_duration > 0 and the default transition the
\* early exit drops no video: before every segment the remaining budget is
\* strictly positive, every video is allocated a strictly positive duration,
\* and one segment is placed per video.
C30_NoVideoDropped ==
    (ReelComposed /\ RLt(Zero, max_duration)
     /\ call.transition_duration = DefaultTransition) =>
        /\ Len(clips) = Len(call.video_paths)
        /\ \A k \in 1..Len(clips) :
              /\ RLt(Zero, RSub(max_duration, clips[k].start))
              /\ RLt(Zero, clips[k].allocated)

\* several videos on the smallest budget: the second segment starts when
\* only the transition is left of the first second
C30_Witness ==
    /\ ReelComposed
    /\ call.transition_duration = DefaultTransition
    /\ max_duration = R(2)
    /\ Len(call.video_paths) >= 2
    /\ Len(clips) = Len(call.video_paths)
    /\ clips[2].start = Frac(1, 2)

\* C14: create_reel places as many segments as videos were supplied, and each
\* segment starts at or after the start of the one before it plus the
\* duration allocated to the one before it.
C14_PlacementsByAllocation ==
    ReelComposed =>
        /\ Len(clips) = Len(call.video_paths)
        /\ \A k \in 1..(Len(clips) - 1) :
              RLe(RAdd(clips[k].placed, clips[k].allocated), clips[k + 1].placed)

\* C14 (amended): create_reel places as many segments as videos were supplied,
\* and each segment starts at or after the end of the one before it, which
\* lasts its prepared duration (the allocation, or less for a shorter video).
C14_PlacementsDoNotOverlap ==
    ReelComposed =>
        /\ Len(clips) = Len(call.video_paths)
        /\ \A k \in 1..(Len(clips) - 1) :
              RLe(RAdd(clips[k].placed, clips[k].duration), clips[k + 1].placed)

\* two segments with a transition between them, the first as long as allocated
C14_Witness ==
    /\ ReelComposed
    /\ Len(clips) >= 2
    /\ call.transition_duration # Zero
    /\ clips[1].duration = clips[1].allocated
    /\ RLt(clips[2].start, clips[2].placed)

\* C15: a composition shorter than min_duration is repeated as whole copies
\* that together last at least min_duration, and cut to exactly min_duration.
C15_LoopedToMinimum ==
    (Returned /\ RLt(Zero, composed) /\ RLt(composed, min_duration)) =>
        /\ RLe(min_duration, RMul(R(loops_needed(composed, min_duration)), composed))
        /\ looped = min_duration

\* a composition that does not divide min_duration: the copies last longer
\* than min_duration and are cut
C15_Witness ==
    /\ Returned
    /\ RLt(Zero, composed) /\ RLt(composed, min_duration)
    /\ RLt(RMul(R(RInt(RDiv(min_duration, composed))), composed), min_duration)
    /\ RLt(min_duration, RMul(R(loops_needed(composed, min_duration)), composed))
    /\ looped = min_duration

CombinedReturned == Returned /\ call.method = "create_combined_reel"

\* C16: at the call sites of create_combined_reel the duration that
\* calculate_text_duration returns lies between the floor 3.0 and the ceiling
\* passed (min(10, 0.4*D) for the quote, min(12, 0.5*D) for the benefit).
C16_DurationWithinFloorAndCeiling ==
    CombinedReturned =>
        \A k \in 1..Len(text_clips) :
            /\ RLe(OverlayFloor, text_clips[k].calculated)
            /\ RLe(text_clips[k].calculated, text_clips[k].ceiling)

\* C17: every overlay scheduled by create_combined_reel lasts at least 3.0,
\* whether or not the shrink step changed it.
C17_ShrinkKeepsFloor ==
    CombinedReturned =>
        \A k \in 1..Len(text_clips) : RLe(OverlayFloor, text_clips[k].duration)

\* an overlay that went through the shrink step
C17_Witness ==
    /\ CombinedReturned
    /\ \E k \in 1..Len(text_clips) :
          /\ RLt(bounded, RAdd(text_clips[k].start, text_clips[k].calculated))
          /\ text_clips[k].duration = OverlayFloor

\* C18: every subtitle overlay scheduled by generate_reel ends at or before
\* the end of the reel create_reel composes from the selected clips.
C18_SubtitlesWithinReel ==
    (Returned /\ UsableBounds /\ call.method = "generate_reel") =>
        \A k \in 1..Len(text_clips) : RLe(OverlayEnd(text_clips[k]), bounded)

----------------------------------------------------------------------------
(* The selector calls *)

\* the texts returned for the long key points in earlier runs
TruncatedItems == {truncate_benefit(b) : b \in {k \in Items : k.id \in LongKeyPoints}}

\* find_assets returns sorted(assets): a pool is a sorted list of candidates
ItemKey(x) == 2 * x.id + (IF x.form = "plain" THEN 0 ELSE 1)

RECURSIVE sorted(_)
sorted(S) ==
    IF S = {} THEN <<>>
    ELSE LET first == CHOOSE x \in S : \A y \in S : ItemKey(x) <= ItemKey(y)
         IN  <<first>> \o sorted(S \ {first})

Pools == {sorted(S) : S \in SUBSET Items}

SelectCalls == [method : {"_select_unused_asset", "_select_unused_quote",
                          "_select_unused_health_benefit"}]

InitSelect ==
    /\ call \in SelectCalls
    /\ pool \in Pools
    /\ used \in SUBSET (IF call.method = "_select_unused_health_benefit"
                        THEN Items \cup TruncatedItems ELSE Items)
    /\ pc = "idle"
    /\ raised = "none"
    /\ chosen = NoItem
    /\ selected = NoItem
    /\ warned = FALSE
    /\ VideoIdle
    /\ TextIdle
    /\ BatchIdle
    /\ RunIdle

\* random.choice over the unused candidates, or over the whole pool (with the
\* warning) when none is unused
Choose(unused) ==
    LET candidates == IF unused = <<>> THEN pool ELSE unused
    IN  \E i \in 1..Len(candidates) :
            /\ chosen' = candidates[i]
            /\ warned' = (unused = <<>>)

ReturnWithout(value) ==
    /\ chosen' = NoItem
    /\ selected' = value
    /\ warned' = FALSE

\* a selector that marks its choice as used in the set it was given
arguments_after_Marking(given, choice) ==
    [given EXCEPT !.used = IF choice = NoItem THEN @ ELSE @ \cup {choice}]

\* the arguments of a selector when it returns: it builds its own sets and
\* lists (used_paths, normalized_used, unused_assets) and, when none is unused,
\* binds the name of the unused list to the pool; it writes to neither
arguments_after(given, choice) == given

Given == [pool |-> pool, used |-> used]

LeaveArguments ==
    /\ pool' = arguments_after(Given, chosen').pool
    /\ used' = arguments_after(Given, chosen').used

SelectUnusedAsset ==
    /\ pc = "idle"
    /\ call.method = "_select_unused_asset"
    /\ IF pool = <<>> THEN ReturnWithout(NoItem)
       ELSE Choose(unused_assets(pool, used)) /\ selected' = chosen'
    /\ LeaveArguments
    /\ pc' = "done"
    /\ UNCHANGED <<call, raised, videoVars, textVars, batchVars, runVars>>

SelectUnusedQuote ==
    /\ pc = "idle"
    /\ call.method = "_select_unused_quote"
    /\ IF pool = <<>> THEN ReturnWithout(FallbackQuote)
       ELSE Choose(unused_quotes(pool, used)) /\ selected' = chosen'
    /\ LeaveArguments
    /\ pc' = "done"
    /\ UNCHANGED <<call, raised, videoVars, textVars, batchVars, runVars>>

SelectUnusedHealthBenefit ==
    /\ pc = "idle"
    /\ call.method = "_select_unused_health_benefit"
    /\ IF pool = <<>> THEN ReturnWithout(NoItem)
       ELSE Choose(unused_benefits(pool, used)) /\ selected' = truncate_benefit(chosen')
    /\ LeaveArguments
    /\ pc' = "done"
    /\ UNCHANGED <<call, raised, videoVars, textVars, batchVars, runVars>>

NextSelect == SelectUnusedAsset \/ SelectUnusedQuote \/ SelectUnusedHealthBenefit

SpecSelect == InitSelect /\ [][NextSelect]_vars

----------------------------------------------------------------------------
(* Properties of the rotation selectors *)

UsedIds == {u.id : u \in used}
PoolExhausted == \A i \in 1..Len(pool) : pool[i].id \in UsedIds

NoUnusedItem ==
    IF call.method = "_select_unused_quote"
    THEN \A i \in 1..Len(pool) : pool[i] \in used
    ELSE PoolExhausted

----------------------------------------------------------------------------
(* generate_reel: "Select videos (prefer unused videos)", with video_paths *)
(* None.  pool is the list find_assets returned and used the videos of the *)
(* ledger.                                                                 *)

MaxClips == 3

\* list * k
RECURSIVE repeat(_, _)
repeat(list, k) == IF k <= 0 THEN <<>> ELSE list \o repeat(list, k - 1)

\* random.sample(population, k): k elements at k different positions, in any order
sample(population, k) ==
    {[i \in 1..k |-> population[at[i]]] :
        at \in {f \in [1..k -> 1..Len(population)] :
                   \A i, j \in 1..k : i # j => f[i] # f[j]}}

\* the lists selected_videos can be
select_reel_videos(videos, used_videos, num_clips) ==
    LET unused == unused_assets(videos, used_videos)
        unused_videos == IF unused = <<>> THEN videos ELSE unused
    IN  IF Len(unused_videos) < num_clips
        THEN {SubSeq(repeat(unused_videos, (num_clips \div Len(unused_videos)) + 1),
                     1, num_clips)}
        ELSE sample(unused_videos, num_clips)

ReelVideoCalls == [method : {"generate_reel"}, num_clips : 1..MaxClips]

InitReelVideos ==
    /\ call \in ReelVideoCalls
    /\ pool \in Pools
    /\ used \in SUBSET Items
    /\ pc = "idle"
    /\ raised = "none"
    /\ chosen = NoItem
    /\ selected = <<>>
    /\ warned = FALSE
    /\ VideoIdle
    /\ TextIdle
    /\ BatchIdle
    /\ RunIdle

\* generate_reel up to the selection: no video found raises ValueError
SelectReelVideos ==
    /\ pc = "idle"
    /\ call.method = "generate_reel"
    /\ IF pool = <<>>
       THEN /\ raised' = "ValueError"
            /\ UNCHANGED <<selected, warned>>
       ELSE /\ raised' = "none"
            /\ selected' \in select_reel_videos(pool, used, call.num_clips)
            /\ warned' = (unused_assets(pool, used) = <<>>)
    /\ pc' = "done"
    /\ UNCHANGED <<call, pool, used, chosen, videoVars, textVars, batchVars, runVars>>

NextReelVideos == SelectReelVideos

SpecReelVideos == InitReelVideos /\ [][NextReelVideos]_vars

ReelVideosSelected == pc = "done" /\ raised = "none"

PairwiseDistinct(list) ==
    \A i, j \in 1..Len(list) : i # j => list[i] # list[j]

\* C26: generate_reel selects exactly num_clips videos, and they are pairwise
\* distinct whenever the pool holds at least num_clips videos, whatever the
\* used set.
C26_ExactlyNumClipsDistinct ==
    ReelVideosSelected =>
        /\ Len(selected) = call.num_clips
        /\ Len(pool) >= call.num_clips => PairwiseDistinct(selected)

\* the parts of it that hold: the number of videos, and distinct videos when
\* enough of the pool is unused or all of it is used
ExactlyNumClips ==
    ReelVideosSelected => Len(selected) = call.num_clips

DistinctWhenEnoughUnused ==
    (ReelVideosSelected
     /\ (Len(unused_assets(pool, used)) >= call.num_clips
         \/ (unused_assets(pool, used) = <<>> /\ Len(pool) >= call.num_clips)))
        => PairwiseDistinct(selected)

----------------------------------------------------------------------------
(* The metadata files and the ledger of used assets.                       *)
(* A metadata file is the dict json.dump wrote, with the keys that         *)
(* _load_used_assets looks up among those the generator writes.  Asset     *)
(* paths, quotes, benefit texts and music files are candidates [id, form]  *)
(* as in the selectors; the other values a key can hold are below.         *)

None == [id |-> 0, form |-> "None"]
EmptyString == [id |-> 0, form |-> "empty"]
QuoteCardFromCollection == [id |-> 0, form |-> "quote_card_from_collection"]
QuoteCardGenerated == [id |-> 0, form |-> "quote_card_generated"]

\* metadata.get(key, default)
get(metadata, key, default) ==
    IF key \in DOMAIN metadata THEN metadata[key] ELSE default

\* the truth value of a looked-up string
truthy(value) == value # None /\ value # EmptyString

\* generate_feed_post: "Save metadata"
feed_metadata(theme, image_source, quote_text) ==
    [theme |-> theme, type |-> "feed",
     image_source |-> image_source,
     quote |-> IF truthy(quote_text) THEN quote_text ELSE None]

\* generate_combined_reel: "Save metadata"; music_path is not among the keys
combined_reel_metadata(theme, videos, images, quote_text, benefit_text, music_path) ==
    [theme |-> theme, type |-> "reel_combined",
     video_sources |-> videos,
     image_sources |-> images,
     quote |-> quote_text,
     health_benefit |-> IF truthy(benefit_text) THEN benefit_text ELSE None]

\* _load_used_assets: "Load feed post metadata", one file
load_feed(ledger, metadata) ==
    LET image_source == get(metadata, "image_source", EmptyString)
        with_image ==
            IF truthy(image_source)
               /\ image_source \notin {QuoteCardFromCollection, QuoteCardGenerated}
            THEN [ledger EXCEPT !.images = @ \cup {image_source}] ELSE ledger
    IN  IF "quote" \in DOMAIN metadata
        THEN [with_image EXCEPT !.quotes = @ \cup {metadata.quote}] ELSE with_image

\* _load_used_assets: "Load reel metadata", one file
load_reel(ledger, metadata) ==
    LET quote == get(metadata, "quote", None)
        health_benefit == get(metadata, "health_benefit", None)
        music == get(metadata, "music", None)
    IN  [images |-> ledger.images \cup Range(get(metadata, "image_sources", <<>>)),
         videos |-> ledger.videos \cup Range(get(metadata, "video_sources", <<>>)),
         quotes |-> ledger.quotes \cup (IF truthy(quote) THEN {quote} ELSE {}),
         health_benefits |->
             ledger.health_benefits
             \cup (IF truthy(health_benefit)
                   THEN {normalize_whitespace(health_benefit)} ELSE {}),
         music |-> ledger.music \cup (IF truthy(music) THEN {music} ELSE {})]

RECURSIVE load_feed_files(_, _)
load_feed_files(ledger, files) ==
    IF files = <<>> THEN ledger
    ELSE load_feed_files(load_feed(ledger, Head(files)), Tail(files))

RECURSIVE load_reel_files(_, _)
load_reel_files(ledger, files) ==
    IF files = <<>> THEN ledger
    ELSE load_reel_files(load_reel(ledger, Head(files)), Tail(files))

\* ContentGenerator._load_used_assets
load_used_assets(files) ==
    load_reel_files(load_feed_files(EmptyLedger, files.feed_posts), files.reels)

----------------------------------------------------------------------------
(* main.py: batch_generate *)

MaxFeeds == 2
MaxReels == 2

ThemeLists == {<<>>, <<"kombucha">>, <<"kombucha", "wellness">>}
ThemeOptions == {<<>>, <<"wellness">>}
Track == [id |-> 1, form |-> "plain"]

\* what a generator selected for one item
FeedChoices ==
    {[image_source |-> QuoteCardGenerated, quote |-> [id |-> 1, form |-> "plain"]],
     [image_source |-> [id |-> 1, form |-> "plain"], quote |-> EmptyString]}

ReelChoices ==
    {[videos |-> <<[id |-> 1, form |-> "plain"]>>,
      images |-> <<[id |-> 1, form |-> "plain"]>>,
      quote |-> [id |-> 1, form |-> "plain"],
      health_benefit |-> [id |-> 1, form |-> "variant"]],
     [videos |-> <<[id |-> 2, form |-> "plain"]>>,
      images |-> <<[id |-> 2, form |-> "variant"]>>,
      quote |-> None,
      health_benefit |-> None]}

BatchCalls ==
    [method : {"batch_generate"},
     feeds : 0..MaxFeeds,
     reels : 0..MaxReels,
     available_themes : ThemeLists,
     themes : ThemeOptions,
     music : {None, Track},
     music_files : {<<>>, <<Track>>}]

\* "Filter themes if specified"
themes_to_use(c) ==
    LET Available(t) == t \in Range(c.available_themes)
    IN  IF c.themes # <<>> THEN SelectSeq(c.themes, Available) ELSE c.available_themes

\* the entry appended to results['feeds'] / results['reels']
entry(theme, success) == [theme |-> theme, success |-> success]

\* a loop that stops at the first failing item
next_item_StopOnFailure(index, success, count) ==
    IF success THEN index + 1 ELSE count

\* for i in range(count), the except clause ending the iteration: the next i
next_item(index, success, count) == index + 1

InitBatch ==
    /\ call \in BatchCalls
    /\ pc = "idle"
    /\ raised = "none"
    /\ BatchIdle
    /\ RunIdle
    /\ VideoIdle
    /\ SelectIdle
    /\ TextIdle

\* batch_generate up to the first loop: exit(1) when no theme can be used
BatchStart ==
    /\ pc = "idle"
    /\ call.method = "batch_generate"
    /\ IF themes_to_use(call) = <<>>
       THEN pc' = "done" /\ raised' = "SystemExit"
       ELSE pc' = "feeds" /\ raised' = "none"
    /\ results' = NoResults
    /\ batch_index' = 0
    /\ UNCHANGED <<call, attempted, metadata_files, loaded_assets,
                   videoVars, selectVars, textVars, runVars>>

\* one iteration of "Generate feed posts": generate_feed_post returns, having
\* written its metadata file, or raises
GenerateFeedPost ==
    /\ pc = "feeds"
    /\ batch_index < call.feeds
    /\ \E theme \in Range(themes_to_use(call)), success \in BOOLEAN, c \in FeedChoices :
          /\ attempted' = attempted \cup
                 {[kind |-> "feed", index |-> batch_index, music |-> None,
                   persisted |-> success]}
          /\ loaded_assets' = load_used_assets(metadata_files)
          /\ metadata_files' =
                 IF success
                 THEN [metadata_files EXCEPT !.feed_posts =
                          Append(@, feed_metadata(theme, c.image_source, c.quote))]
                 ELSE metadata_files
          /\ results' = [results EXCEPT !.feeds = Append(@, entry(theme, success))]
          /\ batch_index' = next_item(batch_index, success, call.feeds)
    /\ UNCHANGED <<call, pc, raised, videoVars, selectVars, textVars, runVars>>

\* the feed loop is over
FeedsDone ==
    /\ pc = "feeds"
    /\ batch_index >= call.feeds
    /\ pc' = "reels"
    /\ batch_index' = 0
    /\ UNCHANGED <<call, raised, results, attempted, metadata_files, loaded_assets,
                   videoVars, selectVars, textVars, runVars>>

\* the music of one reel: the --music option, else a random file, else None
MusicPaths(c) ==
    IF truthy(c.music) THEN {c.music}
    ELSE IF c.music_files # <<>> THEN Range(c.music_files) ELSE {None}

\* one iteration of "Generate reels": generate_combined_reel returns, having
\* written its metadata file, or raises
GenerateCombinedReel ==
    /\ pc = "reels"
    /\ batch_index < call.reels
    /\ \E theme \in Range(themes_to_use(call)), success \in BOOLEAN, c \in ReelChoices,
          music_path \in MusicPaths(call) :
          /\ attempted' = attempted \cup
                 {[kind |-> "reel", index |-> batch_index, music |-> music_path,
                   persisted |-> success]}
          /\ loaded_assets' = load_used_assets(metadata_files)
          /\ metadata_files' =
                 IF success
                 THEN [metadata_files EXCEPT !.reels =
                          Append(@, combined_reel_metadata(theme, c.videos, c.images,
                                        c.quote, c.health_benefit, music_path))]
                 ELSE metadata_files
          /\ results' = [results EXCEPT !.reels = Append(@, entry(theme, success))]
          /\ batch_index' = next_item(batch_index, success, call.reels)
    /\ UNCHANGED <<call, pc, raised, videoVars, selectVars, textVars, runVars>>

\* "Summary": exit(1) when some item failed
Summary ==
    /\ pc = "reels"
    /\ batch_index >= call.reels
    /\ pc' = "done"
    /\ raised' =
          IF \E k \in 1..Len(results.feeds) : ~results.feeds[k].success
          THEN "SystemExit"
          ELSE IF \E k \in 1..Len(results.reels) : ~results.reels[k].success
          THEN "SystemExit" ELSE "none"
    /\ UNCHANGED <<call, results, batch_index, attempted, metadata_files, loaded_assets,
                   videoVars, selectVars, textVars, runVars>>

\* the next run: a generator starts by rebuilding the ledger
LoadUsedAssets ==
    /\ pc = "done"
    /\ call.method = "batch_generate"
    /\ pc' = "next_run"
    /\ loaded_assets' = load_used_assets(metadata_files)
    /\ UNCHANGED <<call, raised, results, batch_index, attempted, metadata_files,
                   videoVars, selectVars, textVars, runVars>>

NextBatch ==
    \/ BatchStart
    \/ GenerateFeedPost
    \/ FeedsDone
    \/ GenerateCombinedReel
    \/ Summary
    \/ LoadUsedAssets

SpecBatch == InitBatch /\ [][NextBatch]_vars

----------------------------------------------------------------------------
(* Properties of the batch and of the ledger *)

BatchRan == pc \in {"done", "next_run"} /\ themes_to_use(call) # <<>>

Attempted(kind, count) ==
    \A k \in 0..(count - 1) : \E a \in attempted : a.kind = kind /\ a.index = k

\* C11: in a batch of n feed posts and m reels every item is attempted, also
\* after earlier items failed: the results hold n feed entries and m reel
\* entries, a failing item being recorded with success = False.
C11_BatchAttemptsEveryItem ==
    BatchRan =>
        /\ Len(results.feeds) = call.feeds
        /\ Len(results.reels) = call.reels
        /\ Attempted("feed", call.feeds)
        /\ Attempted("reel", call.reels)
        /\ \A a \in attempted :
              LET entries == IF a.kind = "feed" THEN results.feeds ELSE results.reels
              IN  entries[a.index + 1].success = a.persisted

\* the first feed post and the first reel failed and the later ones were made
C11_Witness ==
    /\ BatchRan
    /\ call.feeds >= 2 /\ call.reels >= 2
    /\ ~results.feeds[1].success /\ results.feeds[2].success
    /\ ~results.reels[1].success /\ results.reels[2].success

\* C12: the ledger rebuilt at the start of the next run holds the music track
\* of every reel whose metadata was persisted.
C12_MusicInLedger ==
    pc = "next_run" =>
        \A a \in attempted :
            (a.kind = "reel" /\ a.persisted /\ truthy(a.music)) =>
                a.music \in loaded_assets.music

----------------------------------------------------------------------------
(* Successive runs of generate_combined_reel over fixed pools.  Each run   *)
(* rebuilds the ledger from the metadata files, selects one video, one     *)
(* image and one health benefit, takes the timestamp that names its three  *)
(* output files and writes them.  Only runs that return are modelled: a    *)
(* run that raises writes no metadata.                                     *)

MaxGenerations == 4
MaxSeconds == 3

Video(i) == [id |-> i, form |-> "plain"]
KeyPoint(i) == [id |-> i, form |-> "plain"]

\* find_assets(theme_name, 'videos'): the sorted video files
VideoPools == {[k \in 1..n |-> Video(k)] : n \in 1..NumItems}

\* the key points of the processed content of the theme
KeyPointPools ==
    {<<>>, <<KeyPoint(1), KeyPoint(NumItems)>>, [k \in 1..NumItems |-> KeyPoint(k)]}

RunCalls ==
    [method : {"generate_combined_reel"},
     theme : {"kombucha"},
     videos : VideoPools,
     images : {<<[id |-> 1, form |-> "plain"]>>},
     key_points : KeyPointPools,
     use_llm_refinement : BOOLEAN]

\* random.choice over the unused candidates, over all of them when none is unused
choices(unused, all) == IF unused = <<>> THEN Range(all) ELSE Range(unused)

\* _select_unused_asset: the values it can return for a non-empty pool
select_unused_asset(all, used_assets) == choices(unused_assets(all, used_assets), all)

\* refine_health_benefit: the text of the language version, which is the text
\* it was given or another text
refine_health_benefit(text) == {text, [text EXCEPT !.form = "refined"]}

\* generate_combined_reel, "Get PDF content for health benefits": the pairs of
\* the key point chosen and the health_benefit_text kept
health_benefit_texts(key_points, used_benefits, use_llm_refinement) ==
    IF key_points = <<>> THEN {[key_point |-> None, text |-> None]}
    ELSE LET candidates == choices(unused_benefits(key_points, used_benefits), key_points)
         IN  UNION {LET benefit_text == truncate_benefit(b)
                    IN  {[key_point |-> b, text |-> t] :
                            t \in IF use_llm_refinement
                                  THEN refine_health_benefit(benefit_text)
                                  ELSE {benefit_text}}
                    : b \in candidates}

\* datetime.now().strftime("%Y%m%d_%H%M%S"): the second, and nothing finer
strftime(second) == second

\* output/reels/{theme}_combined_{timestamp}{ending}
reel_path(theme, timestamp, ending) ==
    [directory |-> "reels", theme |-> theme, kind |-> "combined",
     timestamp |-> timestamp, ending |-> ending]

output_paths(theme, timestamp) ==
    [video |-> reel_path(theme, timestamp, ".mp4"),
     caption |-> reel_path(theme, timestamp, "_caption.txt"),
     metadata |-> reel_path(theme, timestamp, "_metadata.json")]

\* open(path, 'w') and the write: the file is created or replaced
write_file(directory, path, content) ==
    [q \in (DOMAIN directory) \cup {path} |-> IF q = path THEN content ELSE directory[q]]

\* the metadata files of output/reels, as glob finds them
RECURSIVE files_of(_, _)
files_of(directory, paths) ==
    IF paths = {} THEN <<>>
    ELSE LET first == CHOOSE q \in paths : \A r \in paths : q.timestamp <= r.timestamp
         IN  <<directory[first]>> \o files_of(directory, paths \ {first})

glob_metadata(directory) ==
    [feed_posts |-> <<>>,
     reels |-> files_of(directory, {q \in DOMAIN directory :
                                       q.directory = "reels" /\ q.ending = "_metadata.json"})]

InitRuns ==
    /\ call \in RunCalls
    /\ pc = "idle"
    /\ raised = "none"
    /\ BatchIdle
    /\ RunIdle
    /\ VideoIdle
    /\ SelectIdle
    /\ TextIdle

\* the clock reaches the next second
Tick ==
    /\ now < MaxSeconds
    /\ now' = now + 1
    /\ UNCHANGED <<call, pc, raised, output_dir, runs, videoVars, selectVars, textVars,
                   batchVars>>

\* one run of generate_combined_reel that returns
CombinedReelRun ==
    /\ call.method = "generate_combined_reel"
    /\ Len(runs) < MaxGenerations
    /\ LET used_assets == load_used_assets(metadata_files)
       IN  \E video \in select_unused_asset(call.videos, used_assets.videos),
              image \in select_unused_asset(call.images, used_assets.images),
              benefit \in health_benefit_texts(call.key_points, used_assets.health_benefits,
                                               call.use_llm_refinement) :
              LET timestamp == strftime(now)
                  paths == output_paths(call.theme, timestamp)
                  metadata == combined_reel_metadata(call.theme, <<video>>, <<image>>,
                                                     None, benefit.text, None)
                  written == write_file(write_file(write_file(output_dir,
                                 paths.video, "video"), paths.caption, "caption"),
                                 paths.metadata, metadata)
              IN  /\ loaded_assets' = used_assets
                  /\ output_dir' = written
                  /\ metadata_files' = glob_metadata(written)
                  /\ runs' = Append(runs, [theme |-> call.theme, second |-> now,
                                           video |-> video,
                                           key_point |-> benefit.key_point,
                                           health_benefit |-> benefit.text,
                                           paths |-> paths])
    /\ pc' = "done"
    /\ UNCHANGED <<call, raised, now, results, batch_index, attempted,
                   videoVars, selectVars, textVars>>

NextRuns ==
    \/ Tick
    \/ CombinedReelRun

SpecRuns == InitRuns /\ [][NextRuns]_vars

----------------------------------------------------------------------------
(* Properties of the rotation over successive runs *)

SelectedBefore(j) == {runs[k].video : k \in 1..(j - 1)}

\* C23: from an empty history over a fixed video pool, no video is selected
\* a second time before every video of the pool has been selected once.
C23_NoRepeatBeforeAllSelected ==
    \A j \in 1..Len(runs) :
        runs[j].video \in SelectedBefore(j) => Range(call.videos) \subseteq SelectedBefore(j)

\* the same, for runs whose timestamps all differ
TimestampsDiffer ==
    \A i, j \in 1..Len(runs) : i # j => runs[i].paths.metadata # runs[j].paths.metadata

NoRepeatWhenTimestampsDiffer ==
    TimestampsDiffer => C23_NoRepeatBeforeAllSelected

SelectedThrough(j) == {runs[k].video : k \in 1..j}
PoolSize == Len(call.videos)

\* the run with which every video of the pool has been used
Exhausts(j) ==
    /\ Range(call.videos) \subseteq SelectedThrough(j)
    /\ ~(Range(call.videos) \subseteq SelectedBefore(j))

\* C24: once every video of a pool of size n has been used, the next n runs
\* select n pairwise distinct videos.
C24_RotationStartsOver ==
    \A j \in 1..Len(runs) :
        (Exhausts(j) /\ j + PoolSize <= Len(runs)) =>
            \A a, b \in (j + 1)..(j + PoolSize) : a # b => runs[a].video # runs[b].video

StartsOverWhenTimestampsDiffer ==
    TimestampsDiffer => C24_RotationStartsOver

\* C25: a run that follows a run that selected the health benefit b does not
\* select b again while another benefit of the pool is unused.
C25_BenefitNotSelectedTwiceInARow ==
    \A j \in 1..(Len(runs) - 1) :
        LET b == runs[j].key_point
            unused == Range(call.key_points) \ {runs[k].key_point : k \in 1..j}
        IN  (b # None /\ unused # {}) => runs[j + 1].key_point # b

\* the same, for runs without LLM refinement
NotTwiceInARowWithoutRefinement ==
    ~call.use_llm_refinement => C25_BenefitNotSelectedTwiceInARow

\* the same, for runs without LLM refinement that select short key points
NotTwiceInARowForShortKeyPoints ==
    \A j \in 1..(Len(runs) - 1) :
        LET b == runs[j].key_point
            unused == Range(call.key_points) \ {runs[k].key_point : k \in 1..j}
        IN  (b # None /\ unused # {} /\ runs[j].health_benefit = b)
                => runs[j + 1].key_point # b

\* C27: two runs that returned, of the same kind and for the same theme,
\* wrote to distinct video, caption and metadata paths.
C27_RunsWriteDistinctPaths ==
    \A i, j \in 1..Len(runs) :
        (i # j /\ runs[i].theme = runs[j].theme) =>
            /\ runs[i].paths.video # runs[j].paths.video
            /\ runs[i].paths.caption # runs[j].paths.caption
            /\ runs[i].paths.metadata # runs[j].paths.metadata

\* the same, for runs that took their timestamps in different seconds
DistinctPathsInDistinctSeconds ==
    \A i, j \in 1..Len(runs) :
        (i # j /\ runs[i].second # runs[j].second) =>
            /\ runs[i].paths.video # runs[j].paths.video
            /\ runs[i].paths.caption # runs[j].paths.caption
            /\ runs[i].paths.metadata # runs[j].paths.metadata

----------------------------------------------------------------------------
(* ImageProcessor.create_text_overlay: strings and the font metrics.       *)
(* A string is a sequence of characters; draw.textbbox measures a string   *)
(* as the sum of the advances of its characters and as high as its highest *)
(* character.                                                              *)

Alphabet == {"a", "W", " ", ",", "."}
Strings == SeqsUpTo(Alphabet, MaxTextLen)

CharWidth(c) ==
    CASE c = "W" -> 6
      [] c = "a" -> 3
      [] OTHER -> 2

CharHeight(c) ==
    CASE c = "W" -> 8
      [] c = "a" -> 5
      [] c = " " -> 0
      [] OTHER -> 2

\* bbox[2] - bbox[0] of draw.textbbox((0, 0), s, font=font)
RECURSIVE text_width(_)
text_width(str) == IF str = <<>> THEN 0 ELSE CharWidth(Head(str)) + text_width(Tail(str))

\* bbox[3] - bbox[1] of draw.textbbox((0, 0), s, font=font)
RECURSIVE text_height(_)
text_height(str) ==
    IF str = <<>> THEN 0
    ELSE LET h == CharHeight(Head(str))
             r == text_height(Tail(str))
         IN  IF h > r THEN h ELSE r

IsSpace(c) == c = " "
IsTerminator(c) == c \in {".", "!", "?"}

\* the number of whitespace characters of str from position i on
RECURSIVE SpaceRun(_, _)
SpaceRun(str, i) ==
    IF i <= Len(str) /\ IsSpace(str[i]) THEN 1 + SpaceRun(str, i + 1) ELSE 0

\* str.strip()
NonSpaces(str) == {i \in 1..Len(str) : ~IsSpace(str[i])}

lstrip(str) ==
    IF NonSpaces(str) = {} THEN <<>>
    ELSE SubSeq(str, CHOOSE i \in NonSpaces(str) : \A j \in NonSpaces(str) : i <= j, Len(str))

rstrip(str) ==
    IF NonSpaces(str) = {} THEN <<>>
    ELSE SubSeq(str, 1, CHOOSE i \in NonSpaces(str) : \A j \in NonSpaces(str) : j <= i)

strip(str) == rstrip(lstrip(str))

\* str.split(): the words between runs of whitespace
RECURSIVE split_from(_, _, _)
split_from(str, i, word) ==
    IF i > Len(str) THEN (IF word = <<>> THEN <<>> ELSE <<word>>)
    ELSE IF IsSpace(str[i])
         THEN (IF word = <<>> THEN <<>> ELSE <<word>>) \o split_from(str, i + 1, <<>>)
         ELSE split_from(str, i + 1, Append(word, str[i]))

split(str) == split_from(str, 1, <<>>)

\* ' '.join(words)
RECURSIVE join(_)
join(words) ==
    IF words = <<>> THEN <<>>
    ELSE IF Len(words) = 1 THEN words[1]
    ELSE words[1] \o <<" ">> \o join(Tail(words))

\* re.split with one capturing group matching `mark` followed by whitespace
\* (at least min_space characters of it): <<text, separator, text, ...>>
RECURSIVE re_split(_, _, _, _, _)
re_split(str, mark, min_space, i, piece) ==
    IF i > Len(str) THEN <<piece>>
    ELSE IF str[i] = mark /\ SpaceRun(str, i + 1) >= min_space
         THEN LET n == SpaceRun(str, i + 1)
              IN  <<piece, SubSeq(str, i, i + n)>>
                  \o re_split(str, mark, min_space, i + n + 1, <<>>)
         ELSE re_split(str, mark, min_space, i + 1, Append(piece, str[i]))

\* "Recombine commas with their preceding text"
recombine(pieces) ==
    [k \in 1..((Len(pieces) - 1) \div 2) |-> pieces[2 * k - 1] \o pieces[2 * k]]
    \o (IF Len(pieces) % 2 = 1 THEN <<pieces[Len(pieces)]>> ELSE <<>>)

\* the end of the run of characters of str, from i on, that satisfy / do not
\* satisfy IsTerminator
RECURSIVE RunEnd(_, _, _)
RunEnd(str, i, terminators) ==
    IF i <= Len(str) /\ (IsTerminator(str[i]) <=> terminators)
    THEN RunEnd(str, i + 1, terminators) ELSE i

\* re.findall(r'([^.!?]+[.!?]+(?:\s+|$))', part)
RECURSIVE findall_sentences(_, _)
findall_sentences(part, i) ==
    IF i > Len(part) THEN <<>>
    ELSE LET j == RunEnd(part, i, FALSE)
             k == RunEnd(part, j, TRUE)
             m == k + SpaceRun(part, k)
         IN  IF j > i /\ k > j /\ (k > Len(part) \/ m > k)
             THEN <<SubSeq(part, i, m - 1)>> \o findall_sentences(part, m)
             ELSE findall_sentences(part, i + 1)

NonBlank(strs) == LET Keep(c) == strip(c) # <<>> IN SelectSeq(strs, Keep)

\* the chunks of one comma part
SentenceParts(part) ==
    LET sentences == findall_sentences(part, 1)
        stripped == strip(part)
    IN  IF sentences # <<>> THEN sentences
        ELSE IF stripped # <<>> /\ stripped[Len(stripped)] = "." THEN <<part>>
        ELSE NonBlank(recombine(re_split(part, ".", 1, 1, <<>>)))

RECURSIVE Flatten(_)
Flatten(lists) == IF lists = <<>> THEN <<>> ELSE Head(lists) \o Flatten(Tail(lists))

\* "Split text by sentences and commas first"
segment(text) ==
    LET comma_parts == recombine(re_split(text, ",", 0, 1, <<>>))
        parts == Flatten([k \in 1..Len(comma_parts) |-> SentenceParts(comma_parts[k])])
        kept == NonBlank(parts)
        stripped == [k \in 1..Len(kept) |-> strip(kept[k])]
    IN  IF stripped = <<>> THEN <<text>> ELSE stripped

----------------------------------------------------------------------------
(* create_text_overlay: wrapping by measured width, and verification *)

WrapMargin == 20
VerifyMargin == 30
LineGap == 10

\* "Word is too long, break it character by character": the character loop,
\* giving the lines appended and the fragment left in temp_word
RECURSIVE break_word(_, _, _, _)
break_word(chars, temp_word, lines, safe_max_width) ==
    IF chars = <<>> THEN [temp_word |-> temp_word, lines |-> lines]
    ELSE LET test_char == Append(temp_word, Head(chars))
         IN  IF text_width(test_char) <= safe_max_width
             THEN break_word(Tail(chars), test_char, lines, safe_max_width)
             ELSE break_word(Tail(chars), <<Head(chars)>>,
                             IF temp_word # <<>> THEN Append(lines, temp_word) ELSE lines,
                             safe_max_width)

\* the loop over the words of one sentence, and "Add remaining line"
RECURSIVE wrap_words(_, _, _, _)
wrap_words(words, current_line, lines, safe_max_width) ==
    IF words = <<>>
    THEN (IF current_line # <<>> THEN Append(lines, join(current_line)) ELSE lines)
    ELSE LET word == Head(words)
             test_line == join(Append(current_line, word))
             flushed == IF current_line # <<>> THEN Append(lines, join(current_line))
                        ELSE lines
         IN  IF text_width(test_line) <= safe_max_width
             THEN wrap_words(Tail(words), Append(current_line, word), lines, safe_max_width)
             ELSE IF text_width(word) > safe_max_width
             THEN LET b == break_word(word, <<>>, flushed, safe_max_width)
                  IN  wrap_words(Tail(words),
                                 IF b.temp_word # <<>> THEN <<b.temp_word>> ELSE <<>>,
                                 b.lines, safe_max_width)
             ELSE wrap_words(Tail(words), <<word>>, flushed, safe_max_width)

\* "Wrap each sentence using actual pixel width measurements"
RECURSIVE wrap_sentences(_, _, _)
wrap_sentences(sentences, lines, max_width) ==
    IF sentences = <<>> THEN lines
    ELSE LET words == split(Head(sentences))
         IN  wrap_sentences(Tail(sentences),
                            IF words = <<>> THEN lines
                            ELSE wrap_words(words, <<>>, lines, max_width - WrapMargin),
                            max_width)

\* "Verify all lines fit within max_width": a line over the limit is split in
\* half at a word boundary, a single word is kept
verify_line(line, max_width) ==
    LET words == split(line)
        mid == Len(words) \div 2
    IN  IF text_width(line) > max_width - VerifyMargin /\ Len(words) > 1
        THEN <<join(SubSeq(words, 1, mid)), join(SubSeq(words, mid + 1, Len(words)))>>
        ELSE <<line>>

verify_lines(lines, max_width) ==
    Flatten([k \in 1..Len(lines) |-> verify_line(lines[k], max_width)])

block_height(heights) == SumInts(heights) + (Len(heights) - 1) * LineGap

----------------------------------------------------------------------------
(* create_text_overlay: the position of the block and the drawing of the   *)
(* lines.  `image` is [width, height]; max_width 0 stands for None.        *)

DefaultPadding == 40
WidthSafety == 80
EdgeSafety == 50
AbsoluteEdge == 50
AvailableSafety == 20
DrawMargin == 10
Ellipsis == <<".", ".", ".">>

\* "if max_width is None": the width of the image less the padding and margin
effective_max_width(c) ==
    IF c.max_width = 0 THEN c.image.width - (c.padding * 2) - WidthSafety
    ELSE c.max_width

\* "Calculate position"
position_y(position, height, block, padding) ==
    IF position = "top" THEN padding
    ELSE IF position = "center" THEN (height - block) \div 2
    ELSE height - block - padding

\* "Measure character by character to fit within available width"
RECURSIVE fitting_chars(_, _, _)
fitting_chars(chars, test_text, available_width) ==
    IF chars = <<>> THEN test_text
    ELSE IF text_width(Append(test_text, Head(chars))) + DrawMargin <= available_width
         THEN fitting_chars(Tail(chars), Append(test_text, Head(chars)), available_width)
         ELSE test_text

\* the bounds check against the padded edges, with "Truncate line if
\* absolutely necessary (last resort)"
padded_bounds(line, width, padding) ==
    LET min_x_padding == padding + EdgeSafety
        max_x_padding == width - padding - EdgeSafety
        line_width == text_width(line)
        line_width_with_margin == line_width + DrawMargin
        centred == (width - line_width_with_margin) \div 2
        x == IF centred < min_x_padding THEN min_x_padding ELSE centred
        available_width == max_x_padding - min_x_padding - AvailableSafety
        fitting == fitting_chars(line, <<>>, available_width)
        cut == IF Len(fitting) < Len(line) THEN fitting \o Ellipsis ELSE fitting
    IN  IF x + line_width_with_margin > max_x_padding
        THEN IF max_x_padding - line_width_with_margin < min_x_padding
             THEN IF line_width > available_width
                  THEN [line |-> cut, x |-> min_x_padding,
                        truncations |->
                            IF Len(fitting) < Len(line)
                            THEN <<[available |-> available_width, line |-> cut]>>
                            ELSE <<>>]
                  ELSE [line |-> line, x |-> min_x_padding, truncations |-> <<>>]
             ELSE [line |-> line, x |-> max_x_padding - line_width_with_margin,
                   truncations |-> <<>>]
        ELSE [line |-> line, x |-> x, truncations |-> <<>>]

\* "Final strict bounds check before drawing - absolute minimums", with
\* "Truncate more aggressively"; line_width is the width measured last, which
\* is that of the line unless the half that was tried did not fit
absolute_bounds(b, width) ==
    LET absolute_min_x == AbsoluteEdge
        absolute_max_x == width - AbsoluteEdge
        line_width_with_margin == text_width(b.line) + DrawMargin
        x == IF b.x < absolute_min_x THEN absolute_min_x ELSE b.x
        available == absolute_max_x - absolute_min_x - AvailableSafety
        half == SubSeq(b.line, 1, Len(b.line) \div 2)
    IN  IF x + line_width_with_margin > absolute_max_x
        THEN IF absolute_max_x - line_width_with_margin < absolute_min_x
             THEN IF text_width(b.line) > available
                     /\ text_width(half) + DrawMargin <= available
                  THEN [line |-> half \o Ellipsis, x |-> absolute_min_x,
                        truncations |->
                            Append(b.truncations,
                                   [available |-> available, line |-> half \o Ellipsis])]
                  ELSE [b EXCEPT !.x = absolute_min_x]
             ELSE [b EXCEPT !.x = absolute_max_x - line_width_with_margin]
        ELSE [b EXCEPT !.x = x]

\* "Draw text": the loop over the wrapped lines from the k-th on
RECURSIVE draw_lines(_, _, _, _, _, _)
draw_lines(lines, heights, k, y_offset, width, padding) ==
    IF k > Len(lines) THEN <<>>
    ELSE LET b == absolute_bounds(padded_bounds(lines[k], width, padding), width)
         IN  <<[line |-> b.line, x |-> b.x, y |-> y_offset,
                truncations |-> b.truncations]>>
             \o draw_lines(lines, heights, k + 1, y_offset + heights[k] + LineGap,
                           width, padding)

----------------------------------------------------------------------------
(* The create_text_overlay calls *)

MaxWidths == {5, 26, 30, 34}

Positions == {"top", "center", "bottom"}

SmallImage == [width |-> 216, height |-> 60]
LargeImage == [width |-> 400, height |-> 200]

\* calls that leave max_width to be derived from the image, and calls that
\* pass it
TextCalls ==
    [method : {"create_text_overlay"},
     text : Strings,
     position : Positions,
     image : {SmallImage},
     padding : {DefaultPadding},
     max_width : {0}]
    \cup
    [method : {"create_text_overlay"},
     text : Strings,
     position : {"bottom"},
     image : {LargeImage},
     padding : {DefaultPadding},
     max_width : MaxWidths]

InitText ==
    /\ call \in TextCalls
    /\ pc = "idle"
    /\ raised = "none"
    /\ TextIdle
    /\ VideoIdle
    /\ SelectIdle
    /\ BatchIdle
    /\ RunIdle

CreateTextOverlay ==
    /\ pc = "idle"
    /\ call.method = "create_text_overlay"
    /\ LET max_width == effective_max_width(call)
           sentences == segment(call.text)
           lines == verify_lines(wrap_sentences(sentences, <<>>, max_width), max_width)
           heights == [k \in 1..Len(lines) |-> text_height(lines[k])]
           top == position_y(call.position, call.image.height, block_height(heights),
                             call.padding)
       IN  /\ all_parts' = sentences
           /\ wrapped_lines' = lines
           /\ line_heights' = heights
           /\ total_height' = block_height(heights)
           /\ y_start' = top
           /\ drawn' = draw_lines(lines, heights, 1, top, call.image.width, call.padding)
    /\ pc' = "done"
    /\ UNCHANGED <<call, raised, videoVars, selectVars, batchVars, runVars>>

NextText == CreateTextOverlay

SpecText == InitText /\ [][NextText]_vars

----------------------------------------------------------------------------
(* Properties of the text fitting *)

\* C4: every line kept after wrapping and verification is at most max_width
\* wide.
C4_LinesFitMaxWidth ==
    (pc = "done" /\ call.method = "create_text_overlay") =>
        \A k \in 1..Len(wrapped_lines) :
            text_width(wrapped_lines[k]) <= effective_max_width(call)

\* C5: the empty string is fitted to zero lines and a block height of zero.
C5_EmptyTextZeroHeight ==
    (pc = "done" /\ call.method = "create_text_overlay" /\ call.text = <<>>) =>
        (wrapped_lines = <<>> /\ total_height = 0)

\* C19: for every anchor, block height and canvas height the text block lies
\* inside the canvas: 0 <= y_start and y_start + total_height <= image height.
C19_BlockInsideCanvas ==
    (pc = "done" /\ call.method = "create_text_overlay") =>
        (0 <= y_start /\ y_start + total_height <= call.image.height)

\* C20: a line truncated at draw time, with its "..." appended, measures
\* (with the 10px margin of the check) at most the available width it was
\* truncated against.
C20_EllipsisFitsAvailableWidth ==
    (pc = "done" /\ call.method = "create_text_overlay") =>
        \A k \in 1..Len(drawn) :
            \A t \in 1..Len(drawn[k].truncations) :
                text_width(drawn[k].truncations[t].line) + DrawMargin
                    <= drawn[k].truncations[t].available

\* the words of the chunks, in order
words_of(parts) == Flatten([k \in 1..Len(parts) |-> split(parts[k])])

\* C28: the segmentation is lossless: the words of all_parts, in order, are
\* the words of the text, each terminator or comma staying with the word
\* before it.
C28_SegmentationLossless ==
    pc = "done" => words_of(all_parts) = split(call.text)

\* the weaker statement that no character but whitespace is lost
NoCharacterLost ==
    pc = "done" => Flatten(words_of(all_parts)) = Flatten(split(call.text))

\* C29: with the default max_width, a line within the wrapping limit is drawn
\* as it is: the draw-time checks cut nothing and append no ellipsis.
C29_FittingLineDrawnUnchanged ==
    (pc = "done" /\ call.max_width = 0) =>
        \A k \in 1..Len(drawn) :
            text_width(wrapped_lines[k]) <= effective_max_width(call) - WrapMargin
                => /\ drawn[k].line = wrapped_lines[k]
                   /\ drawn[k].truncations = <<>>

----------------------------------------------------------------------------
(* The text of a health benefit: _select_unused_health_benefit cuts the key
   point it chose before it returns it. Key points are strings, given as runs
   of one character. *)

MaxStretches == 3
RunLengths == {1, 49, 150, 198}
KeyPointChars == {"a", " ", "."}

MaxBenefitChars == 200
SentenceEndFloor == 50
SpaceFloor == 150

Run(c, n) == [i \in 1..n |-> c]

RECURSIVE Expand(_)
Expand(stretches) ==
    IF stretches = <<>> THEN <<>> ELSE Run(Head(stretches).char, Head(stretches).count) \o Expand(Tail(stretches))

KeyPoints ==
    {Expand(stretches) : stretches \in SeqsUpTo([char : KeyPointChars, count : RunLengths], MaxStretches)}

\* str[:n]
prefix(str, n) == SubSeq(str, 1, IF n < Len(str) THEN n ELSE Len(str))

\* str.rfind(c): the index, from 0, of the last c of str, and -1 when it has none
rfind(str, c) ==
    LET hits == {i \in 1..Len(str) : str[i] = c}
    IN  IF hits = {} THEN -1 ELSE (CHOOSE i \in hits : \A j \in hits : j <= i) - 1

max3(a, b, c) ==
    LET ab == IF a >= b THEN a ELSE b IN IF ab >= c THEN ab ELSE c

\* _select_unused_health_benefit: "Truncate if too long (max 200 chars for
\* video)", then the strip() of the return statement
truncate_text(key_point) ==
    IF Len(key_point) > MaxBenefitChars
    THEN LET truncated == prefix(key_point, MaxBenefitChars)
             last_sentence_end == max3(rfind(truncated, "."), rfind(truncated, "!"),
                                       rfind(truncated, "?"))
             last_space == rfind(truncated, " ")
         IN  IF last_sentence_end > SentenceEndFloor
             THEN strip(strip(prefix(key_point, last_sentence_end + 1)))
             ELSE IF last_space > SpaceFloor
                  THEN strip(strip(prefix(key_point, last_space)) \o Ellipsis)
                  ELSE strip(strip(truncated) \o Ellipsis)
    ELSE strip(key_point)

TruncateCalls == [method : {"_select_unused_health_benefit"}, key_point : KeyPoints]

InitTruncate ==
    /\ call \in TruncateCalls
    /\ pc = "idle"
    /\ raised = "none"
    /\ pool = <<call.key_point>>
    /\ used = {}
    /\ chosen = <<>>
    /\ selected = <<>>
    /\ warned = FALSE
    /\ VideoIdle
    /\ TextIdle
    /\ BatchIdle
    /\ RunIdle

\* the one key point of the pool is unused: it is chosen, cut and returned
SelectHealthBenefitText ==
    /\ pc = "idle"
    /\ call.method = "_select_unused_health_benefit"
    /\ chosen' = pool[1]
    /\ selected' = truncate_text(pool[1])
    /\ warned' = FALSE
    /\ pc' = "done"
    /\ UNCHANGED <<call, raised, pool, used, videoVars, textVars, batchVars, runVars>>

NextTruncate == SelectHealthBenefitText

SpecTruncate == InitTruncate /\ [][NextTruncate]_vars

\* C22: the text _select_unused_health_benefit returns has at most 200
\* characters, whatever the key point.
C22_BenefitWithinBudget ==
    pc = "done" => Len(selected) <= MaxBenefitChars

\* side facts: the longest text returned has 203 characters, and a key point
\* of at most 200 characters is returned stripped
BenefitAtMostBudgetAndEllipsis ==
    pc = "done" => Len(selected) <= MaxBenefitChars + Len(Ellipsis)

ShortKeyPointReturnedStripped ==
    pc = "done" /\ Len(chosen) <= MaxBenefitChars => selected = strip(chosen)

====
